---- MODULE Spec2Model ----
(***************************************************************************)
(* A model of datapackage/resource.py: Resource, TabularResource and the   *)
(* Resource.load factory.                                                  *)
(*                                                                         *)
(* Python values are records [type, v]; an object is a value together with *)
(* the number id() returns for it.  Texts (file contents, HTTP bodies,     *)
(* inline strings, paths) are sequences of lexemes.                        *)
(***************************************************************************)
EXTENDS Integers, Sequences, FiniteSets, TLC

\* Number of distinct addresses id() can return for the objects held under
\* one descriptor key (besides the address of None).
NumIds == 2

-----------------------------------------------------------------------------
(* Python values                                                           *)

None == [type |-> "NoneType", v |-> <<>>]
PyStr(s) == [type |-> "str", v |-> s]
PyInt(n) == [type |-> "int", v |-> n]
PyList(xs) == [type |-> "list", v |-> xs]
PyDict(kvs) == [type |-> "dict", v |-> kvs]

\* bool(x) as the `and`, `not` and `if` of the source evaluate it.
Truthy(x) ==
    CASE x.type = "NoneType" -> FALSE
      [] x.type = "int" -> x.v # 0
      [] OTHER -> x.v # <<>>

\* isinstance(x, six.string_types)
IsString(x) == x.type = "str"

\* An object: a value and its id().  None is a singleton.
Obj(i, x) == [id |-> i, val |-> x]
NoneObj == Obj(0, None)
\* id of an object the interpreter allocated during a call (a text read from
\* a file or a response, a parse result): never an object of the descriptor.
FreshId == NumIds + 1
Fresh(x) == IF x = None THEN NoneObj ELSE Obj(FreshId, x)

-----------------------------------------------------------------------------
(* Exceptions                                                              *)

\* The classes an exception class derives from (itself included).
\* ResourceError comes from datapackage/exceptions.py.
ResourceErrorBases == {"ResourceError", "Exception"}
ValueErrorBases == {"ValueError", "Exception"}

Bases(class) ==
    CASE class = "ResourceError" -> ResourceErrorBases
      [] class = "ValueError" -> ValueErrorBases
      [] OTHER -> {class}

\* what `except class:` catches
IsInstance(exc, class) == class \in Bases(exc.class)

NoError == [class |-> "None", cause |-> "None", at |-> <<>>]
\* six.raise_from(ResourceError(e), e)
ResourceError(cause, at) == [class |-> "ResourceError", cause |-> cause, at |-> at]
\* raise ValueError(msg.format(types_str, type(data).__name__))
ValueError(typename) == [class |-> "ValueError", cause |-> typename, at |-> <<>>]

-----------------------------------------------------------------------------
(* Text parsing: json.loads and csv.DictReader                             *)

RECURSIVE Split(_, _)
\* s.split(sep) on a sequence of lexemes
Split(s, sep) ==
    IF \A i \in 1..Len(s) : s[i] # sep
    THEN <<s>>
    ELSE LET i == CHOOSE k \in 1..Len(s) :
                      s[k] = sep /\ \A j \in 1..(k - 1) : s[j] # sep
         IN  <<SubSeq(s, 1, i - 1)>> \o Split(SubSeq(s, i + 1, Len(s)), sep)

Digits == {"0", "1", "2", "3"}
DigitVal(d) == CASE d = "0" -> 0 [] d = "1" -> 1 [] d = "2" -> 2 [] d = "3" -> 3
JsonStrings == {"\"x\"", "\"y\""}

IsJsonScalar(s) == Len(s) = 1 /\ s[1] \in Digits \cup JsonStrings
\* the characters between the quotes of a string lexeme
Unquote(q) == CASE q = "\"x\"" -> <<"x">> [] q = "\"y\"" -> <<"y">>
JsonScalar(s) == IF s[1] \in Digits THEN PyInt(DigitVal(s[1])) ELSE PyStr(Unquote(s[1]))

\* The outcome of json.loads: the value, or ok = FALSE when it raises
\* ValueError.
JsonValue(val) == [ok |-> TRUE, val |-> val]
NotJson == [ok |-> FALSE, val |-> None]

\* the text between the brackets of an array
JsonArray(items) ==
    IF \A i \in 1..Len(items) : IsJsonScalar(items[i])
    THEN JsonValue(PyList([i \in 1..Len(items) |-> JsonScalar(items[i])]))
    ELSE NotJson

\* the text between the braces of an object
JsonObject(inner) ==
    IF Len(inner) = 3 /\ inner[1] \in JsonStrings /\ inner[2] = ":"
       /\ IsJsonScalar(<<inner[3]>>)
    THEN JsonValue(PyDict(<<<<PyStr(Unquote(inner[1])), JsonScalar(<<inner[3]>>)>>>>))
    ELSE NotJson

\* json.loads(text).  The documents are scalars, arrays of scalars and
\* objects of at most one scalar member.
JsonLoads(s) ==
    CASE IsJsonScalar(s) -> JsonValue(JsonScalar(s))
      [] Len(s) = 2 /\ s[1] = "[" /\ s[2] = "]" -> JsonValue(PyList(<<>>))
      [] Len(s) > 2 /\ s[1] = "[" /\ s[Len(s)] = "]" ->
            JsonArray(Split(SubSeq(s, 2, Len(s) - 1), ","))
      [] Len(s) = 2 /\ s[1] = "{" /\ s[2] = "}" -> JsonValue(PyDict(<<>>))
      [] Len(s) > 2 /\ s[1] = "{" /\ s[Len(s)] = "}" ->
            JsonObject(SubSeq(s, 2, Len(s) - 1))
      [] OTHER -> NotJson

\* Drops the empty piece that follows the last line end.
DropLastEmpty(parts) ==
    IF parts[Len(parts)] = <<>> THEN SubSeq(parts, 1, Len(parts) - 1) ELSE parts

\* The lines of a text, as iterating six.StringIO(data) yields them (the
\* line ends dropped, as the csv reader drops them).
Lines(s) == DropLastEmpty(Split(s, "\n"))

\* csv.reader on one line: [] for an empty line, else its fields.
CsvRow(line) == IF line = <<>> THEN <<>> ELSE Split(line, ",")

\* dict(zip(fieldnames, row)), plus restkey (None) for the fields beyond the
\* header and restval (None) for the header names beyond the row.
CsvDict(fieldnames, row) ==
    PyDict(
      IF Len(fieldnames) < Len(row)
      THEN [i \in 1..Len(fieldnames) |-> <<PyStr(fieldnames[i]), PyStr(row[i])>>]
           \o <<<<None, PyList([i \in 1..(Len(row) - Len(fieldnames)) |->
                                   PyStr(row[Len(fieldnames) + i])])>>>>
      ELSE [i \in 1..Len(fieldnames) |->
              <<PyStr(fieldnames[i]), IF i <= Len(row) THEN PyStr(row[i]) ELSE None>>])

\* The dicts of the rows below the header; blank lines are skipped.
CsvRows(fieldnames, rows) ==
    [i \in 1..Len(rows) |-> CsvDict(fieldnames, rows[i])]

CsvRecords(lines) ==
    IF lines = <<>>
    THEN <<>>
    ELSE CsvRows(CsvRow(lines[1]),
                 SelectSeq([i \in 1..(Len(lines) - 1) |-> CsvRow(lines[i + 1])],
                           LAMBDA r : r # <<>>))

\* [row for row in _csv_dictreader(six.StringIO(data))]: the first line is
\* the header.
CsvDictReader(s) == CsvRecords(Lines(s))

-----------------------------------------------------------------------------
(* The descriptor and the outside world                                    *)

\* The descriptor keys whose identities the cache key snapshots.
DataKeys == {"data", "path", "url"}

\* metadata.get(key): the object under the key, None when the key is absent.
Get(metadata, key) == metadata[key]

\* 'base' is looked up with a default, so an absent key differs from None.
Absent == Obj(0, [type |-> "absent", v |-> <<>>])
GetDefault(metadata, key, default) ==
    IF metadata[key] = Absent THEN default ELSE metadata[key].val

\* What the file system and the network answer during one run of _load_data:
\* whether the resolved path is a regular file, what the path gives (read as
\* that file, or else requested as a URL), and what the GET of the url gives.
Failed == [ok |-> FALSE, text |-> <<>>]
Body(t) == [ok |-> TRUE, text |-> t]

TextArr == <<"[", "1", ",", "2", "]">>
TextObj == <<"{", "\"x\"", ":", "1", "}">>
TextCsv == <<"a", ",", "b", "\n", "1", ",", "2", "\n">>
TextHdr == <<"a", ",", "b", "\n">>

PathTexts == {TextArr, TextObj, TextCsv, TextHdr}
UrlTexts == {TextArr, TextObj}

Env == [isfile : BOOLEAN,
        path : {Failed} \cup {Body(t) : t \in PathTexts},
        url : {Failed} \cup {Body(t) : t \in UrlTexts}]

\* An outside world for the calls that consult none.
NoEnv == [isfile |-> FALSE, path |-> Failed, url |-> Failed]

-----------------------------------------------------------------------------
(* Resource: the fetch pipeline                                            *)

\* os.path.join(a, p) on POSIX
PathJoin(a, p) ==
    IF p # <<>> /\ p[1] = "/" THEN p
    ELSE IF a = <<>> \/ a[Len(a)] = "/" THEN a \o p
    ELSE a \o <<"/">> \o p

_absolute_path(base_path, path) ==
    IF path = None \/ base_path = None
    THEN path
    ELSE PyStr(PathJoin(base_path.v, path.v))

\* One input/output operation of a call: what was done, on which location,
\* and what the outside world answered.
IO(op, at, answer) == [op |-> op, at |-> at, answer |-> answer]

\* The property local_data_path: the value, and the existence check made.
IsFile(path, env) ==
    IF Truthy(path)
    THEN [val |-> IF env.isfile THEN path ELSE None,
          io |-> <<IO("isfile", path.v, [ok |-> env.isfile, text |-> <<>>])>>]
    ELSE [val |-> None, io |-> <<>>]

local_data_path(base_path, md, env) ==
    IsFile(_absolute_path(base_path, Get(md, "path").val), env)

\* A call that returns `data` or raises `error`, having performed `io`.
Return(data, io) == [raised |-> FALSE, error |-> NoError, data |-> data, io |-> io]
Raise(error, io) == [raised |-> TRUE, error |-> error, data |-> NoneObj, io |-> io]

_load_data_from_path(path, answer) ==
    IF answer.ok
    THEN Return(Fresh(PyStr(answer.text)), <<IO("open", path.v, answer)>>)
    ELSE Raise(ResourceError("IOError", path.v), <<IO("open", path.v, answer)>>)

\* Variant: a failed request is made a second time.
RequestsAgain(url, answer) ==
    IF answer.ok
    THEN Return(Fresh(PyStr(answer.text)), <<IO("GET", url.v, answer)>>)
    ELSE Raise(ResourceError("RequestException", url.v),
               <<IO("GET", url.v, answer), IO("GET", url.v, answer)>>)

_load_data_from_url(url, answer) ==
    IF answer.ok
    THEN Return(Fresh(PyStr(answer.text)), <<IO("GET", url.v, answer)>>)
    ELSE Raise(ResourceError("RequestException", url.v), <<IO("GET", url.v, answer)>>)

\* Variant: the path is tried although inline data is present.
TryPathDespiteData(data, data_path) == Truthy(data_path)

\* if data is None and data_path:
TryPath(data, data_path) == data = NoneObj /\ Truthy(data_path)

\* Variant: the url is requested although content was already obtained.
TryUrlDespiteData(data, data_url) == Truthy(data_url)

\* if data is None and data_url:
TryUrl(data, data_url) == data = NoneObj /\ Truthy(data_url)

\* Variant: the error of the url attempt overwrites the recorded one.
KeepLastError(error, e) == e

\* `if not error: error = e` in the handler of the url attempt
KeepFirstError(error, e) == IF ~(error # NoError) THEN e ELSE error

\* The state of a run of _load_data between its steps: the locals data and
\* error, and the input/output performed so far.
Step(data, error, io) == [data |-> data, error |-> error, io |-> io]

\* try: ... except ResourceError as e: error = e, for the path.  `found` is
\* self.local_data_path; its second evaluation sees the same file system
\* (the file is not created or removed in between).
PathAttempt(found, url, answer) ==
    IF Truthy(found.val)
    THEN _load_data_from_path(found.val, answer)
    ELSE _load_data_from_url(url, answer)

PathStep(found, attempt) ==
    Step(attempt.data, attempt.error,
         found.io \o (IF Truthy(found.val) THEN found.io ELSE <<>>) \o attempt.io)

\* try: ... except ResourceError as e: if not error: error = e, for the url
UrlStep(before, request) ==
    Step(request.data,
         IF request.raised THEN KeepFirstError(before.error, request.error)
         ELSE before.error,
         before.io \o request.io)

\* Variant: a run that obtained no content raises even with no error
\* recorded.
RaisesWithoutContent(step) ==
    IF step.data = NoneObj
    THEN Raise(IF step.error # NoError THEN step.error ELSE ResourceError("None", <<>>),
               step.io)
    ELSE Return(step.data, step.io)

\* if data is None and error: raise error; return data
Finish(step) ==
    IF step.data = NoneObj /\ step.error # NoError
    THEN Raise(step.error, step.io)
    ELSE Return(step.data, step.io)

AfterPath(base_path, md, env, found) ==
    IF TryPath(Get(md, "data"), Get(md, "path").val)
    THEN PathStep(found,
                  PathAttempt(found,
                              _absolute_path(base_path, Get(md, "path").val),
                              env.path))
    ELSE Step(Get(md, "data"), NoError, <<>>)

AfterUrl(md, env, before) ==
    IF TryUrl(before.data, Get(md, "url").val)
    THEN UrlStep(before, _load_data_from_url(Get(md, "url").val, env.url))
    ELSE before

_load_data(base_path, md, env) ==
    Finish(AfterUrl(md, env,
                    AfterPath(base_path, md, env,
                              local_data_path(base_path, md, env))))

-----------------------------------------------------------------------------
(* Resource and TabularResource                                            *)

\* Variant: the cache key snapshots the identity of base as well.
WithBaseId(md) ==
    [data_id |-> Get(md, "data").id,
     data_path_id |-> Get(md, "path").id,
     data_url_id |-> Get(md, "url").id,
     base_id |-> md.base.id]

_metadata_data_ids(md) ==
    [data_id |-> Get(md, "data").id,
     data_path_id |-> Get(md, "path").id,
     data_url_id |-> Get(md, "url").id]

\* Variant: the cache key is never found unchanged.
AlwaysChanged(md, original_ids) == TRUE

_metadata_data_has_changed(md, original_ids) ==
    _metadata_data_ids(md) # original_ids

\* The outcome of _parse_data: `ids` is what it assigned to
\* self._original_metadata_data_ids before loading, `out` what it returned or
\* raised, `run` the run of _load_data it made.
Parsed(ids, out, run) == [ids |-> ids, out |-> out, run |-> run]

ParsedRun(md, run) == Parsed(_metadata_data_ids(md), run, run)

Resource_parse_data(base_path, md, env) ==
    ParsedRun(md, _load_data(base_path, md, env))

TabularTypes == {"list", "tuple"}

\* Variant: mappings pass for tabular data as well.
AcceptsMappings(data) ==
    IF data.type \in {"list", "tuple", "dict"} THEN NoError ELSE ValueError(data.type)

\* NoError when the data is tabular, else the ValueError raised.
_raise_if_isnt_tabular_data(data) ==
    IF \E tabular_type \in TabularTypes : data.type = tabular_type
    THEN NoError
    ELSE ValueError(data.type)

\* Variant: the empty list of csv rows is kept as it is.
RowsAsRead(rows) == Fresh(PyList(rows))

\* if not data: data = None, on the list of csv rows
RowsOrNone(rows) == IF ~Truthy(PyList(rows)) THEN NoneObj ELSE Fresh(PyList(rows))

\* Variant: a JSON value that is no array is read again as CSV.
CsvUnlessArray(text, json) ==
    IF json.ok /\ json.val.type = "list"
    THEN Fresh(json.val)
    ELSE RowsOrNone(CsvDictReader(text))

\* try: data = json.loads(data) except ValueError: data = [rows]
ParseText(text, json) ==
    IF json.ok THEN Fresh(json.val) ELSE RowsOrNone(CsvDictReader(text))

\* if isinstance(data, six.string_types): ...
ParseIfString(data) ==
    IF IsString(data.val) THEN ParseText(data.val.v, JsonLoads(data.val.v)) ELSE data

\* self._raise_if_isnt_tabular_data(data); return data
Validated(super, data, invalid) ==
    IF invalid # NoError
    THEN Parsed(super.ids, Raise(invalid, super.run.io), super.run)
    ELSE Parsed(super.ids, Return(data, super.run.io), super.run)

TabularParse(super, data) ==
    Validated(super, data, _raise_if_isnt_tabular_data(data.val))

AfterSuper(super) ==
    IF super.out.raised THEN super ELSE TabularParse(super, ParseIfString(super.out.data))

TabularResource_parse_data(base_path, md, env) ==
    AfterSuper(Resource_parse_data(base_path, md, env))

\* self._parse_data(metadata), dispatched on the class of self
_parse_data(class, base_path, md, env) ==
    IF class = "TabularResource"
    THEN TabularResource_parse_data(base_path, md, env)
    ELSE Resource_parse_data(base_path, md, env)

\* The outcome of a constructor or of load: the new object `self` when it
\* returns, the exception when it raises, and the runs of _load_data made.
Constructed(class, base_path, parsed) ==
    [raised |-> parsed.out.raised,
     error |-> parsed.out.error,
     self |-> [class |-> class,
               _base_path |-> base_path,
               _original_metadata_data_ids |-> parsed.ids,
               _data |-> parsed.out.data],
     runs |-> <<parsed.run>>]

Construct(class, md, base_path, env) ==
    Constructed(class, base_path, _parse_data(class, base_path, md, env))

\* class(metadata, default_base_path)
__init__(class, md, default_base_path, env) ==
    Construct(class, md, GetDefault(md, "base", default_base_path), env)

\* Variant: except Exception, which catches the fetch failure too.
CatchesAll(tabular) == tabular.raised

\* Variant: no except clause, the type error leaves load.
CatchesNothing(tabular) == FALSE

\* except ValueError: in Resource.load
FallsBack(tabular) == tabular.raised /\ IsInstance(tabular.error, "ValueError")

\* Variant: the fallback builds the plain resource from the content the
\* tabular construction fetched, without a second run.
ReusesContent(class, md, default_base_path, env2, tabular) ==
    IF FallsBack(tabular)
    THEN [raised |-> FALSE,
          error |-> NoError,
          self |-> [tabular.self EXCEPT !.class = class,
                                        !._data = tabular.runs[1].data],
          runs |-> tabular.runs]
    ELSE tabular

\* try: resource = TabularResource(...) except ValueError: resource = cls(...)
Fallback(class, md, default_base_path, env2, tabular) ==
    IF FallsBack(tabular)
    THEN [__init__(class, md, default_base_path, env2)
            EXCEPT !.runs = tabular.runs \o @]
    ELSE tabular

\* Resource.load, called on class `class`; env1 and env2 are the outside
\* world during the first and during the second construction.
load(class, md, default_base_path, env1, env2) ==
    Fallback(class, md, default_base_path, env2,
             __init__("TabularResource", md, default_base_path, env1))

-----------------------------------------------------------------------------
(* The state                                                               *)

VARIABLES
    metadata,   \* the descriptor dict, shared with the caller
    class,      \* class of the resource load returned, "None" before
    _base_path,                     \* self._base_path
    _original_metadata_data_ids,    \* self._original_metadata_data_ids
    _data,                          \* self._data
    last,       \* history: the caller's latest operation and its outcome
    threads     \* the data accesses in progress, one per thread: the place
                \* each has reached in the property data and its locals

vars == <<metadata, class, _base_path, _original_metadata_data_ids, _data,
          last, threads>>

\* Values the caller stores under the descriptor keys.
DataVals == {PyList(<<PyInt(1), PyInt(2)>>), PyDict(<<>>), PyStr(TextArr)}
PathVals == {PyStr(<<"p">>), PyStr(<<>>)}
UrlVals == {PyStr(<<"u">>)}
BaseVals == {PyStr(<<"b">>)}
DefaultBasePaths == {None}

Vals(key) ==
    CASE key = "data" -> DataVals
      [] key = "path" -> PathVals
      [] key = "url" -> UrlVals

Ids == 1..NumIds

\* The record of an operation: what it returned or raised, whether the
\* cache key differed when it started, its runs of _load_data in order and
\* the base path they resolved the path against.
Op(name, raised, error, ret, changed, runs, base_path) ==
    [op |-> name, raised |-> raised, error |-> error, ret |-> ret,
     changed |-> changed, runs |-> runs, base_path |-> base_path]

\* The threads that access data concurrently, and a thread that has not
\* called data yet.
Threads == {"t1", "t2"}
Idle == [pc |-> "idle", changed |-> FALSE, fetched |-> FALSE, raised |-> FALSE,
         error |-> NoError, data |-> NoneObj, ret |-> NoneObj]

NoIds == [data_id |-> 0, data_path_id |-> 0, data_url_id |-> 0]

Init ==
    /\ metadata \in [data : {NoneObj} \cup {Obj(1, v) : v \in DataVals},
                     path : {NoneObj} \cup {Obj(1, v) : v \in PathVals},
                     url : {NoneObj} \cup {Obj(1, v) : v \in UrlVals},
                     base : {Absent} \cup {Obj(1, v) : v \in BaseVals}]
    /\ class = "None"
    /\ _base_path = None
    /\ _original_metadata_data_ids = NoIds
    /\ _data = NoneObj
    /\ last = Op("start", FALSE, NoError, NoneObj, FALSE, <<>>, None)
    /\ threads = [t \in Threads |-> Idle]

-----------------------------------------------------------------------------
(* The operations of the caller                                            *)

\* resource = ...: the fields of the object load returned
Assign(r) ==
    IF r.raised
    THEN UNCHANGED <<class, _base_path, _original_metadata_data_ids, _data>>
    ELSE /\ class' = r.self.class
         /\ _base_path' = r.self._base_path
         /\ _original_metadata_data_ids' = r.self._original_metadata_data_ids
         /\ _data' = r.self._data

LoadOutcome(r) ==
    /\ last' = Op("load", r.raised, r.error, NoneObj, FALSE, r.runs, r.self._base_path)
    /\ Assign(r)

\* resource = Resource.load(metadata, default_base_path)
Load(default_base_path, env1, env2) ==
    /\ class = "None"
    /\ last.op = "start"
    /\ LoadOutcome(load("Resource", metadata, default_base_path, env1, env2))
    /\ UNCHANGED <<metadata, threads>>

\* The outside worlds a run of _load_data on the descriptor can tell apart:
\* the answers it does not ask for are fixed.
EnvsFor(md) ==
    {env \in Env :
        /\ (Get(md, "data") # NoneObj \/ ~Truthy(Get(md, "path").val))
              => (env.isfile = NoEnv.isfile /\ env.path = NoEnv.path)
        /\ (Get(md, "data") # NoneObj \/ ~Truthy(Get(md, "url").val))
              => env.url = NoEnv.url}

\* The second construction happens, and meets its own outside world, only
\* when the first one falls back.
SecondEnvs(default_base_path, env1) ==
    IF FallsBack(__init__("TabularResource", metadata, default_base_path, env1))
    THEN EnvsFor(metadata)
    ELSE {NoEnv}

\* A data access meets the outside world only when the cache key differs.
DataEnvs ==
    IF _metadata_data_has_changed(metadata, _original_metadata_data_ids)
    THEN EnvsFor(metadata)
    ELSE {NoEnv}

\* self._data = self._parse_data(self.metadata); return self._data
Recompute(parsed) ==
    /\ _original_metadata_data_ids' = parsed.ids
    /\ IF parsed.out.raised
       THEN /\ UNCHANGED _data
            /\ last' = Op("data", TRUE, parsed.out.error, NoneObj,
                          TRUE, <<parsed.run>>, _base_path)
       ELSE /\ _data' = parsed.out.data
            /\ last' = Op("data", FALSE, NoError, parsed.out.data,
                          TRUE, <<parsed.run>>, _base_path)

\* resource.data
Data(env) ==
    /\ class # "None"
    /\ IF _metadata_data_has_changed(metadata, _original_metadata_data_ids)
       THEN Recompute(_parse_data(class, _base_path, metadata, env))
       ELSE /\ UNCHANGED <<_original_metadata_data_ids, _data>>
            /\ last' = Op("data", FALSE, NoError, _data, FALSE, <<>>, _base_path)
    /\ UNCHANGED <<metadata, class, _base_path, threads>>

\* The ids a new object stored under `key` can get: not the id of the object
\* it replaces (alive until the store), not that of the inline data object
\* the resource still holds as _data.
FreeIds(key) ==
    {i \in Ids : /\ i # metadata[key].id
                 /\ key = "data" => i # _data.id}

\* metadata[key] = a new object of value v
Replace(key, v, i) ==
    /\ class # "None"
    /\ i \in FreeIds(key)
    /\ metadata' = [metadata EXCEPT ![key] = Obj(i, v)]
    /\ last' = Op("replace", FALSE, NoError, NoneObj, FALSE, <<>>, _base_path)
    /\ UNCHANGED <<class, _base_path, _original_metadata_data_ids, _data, threads>>

\* metadata[key] = None
Clear(key) ==
    /\ class # "None"
    /\ key \in DataKeys
    /\ metadata[key] # NoneObj
    /\ metadata' = [metadata EXCEPT ![key] = NoneObj]
    /\ last' = Op("clear", FALSE, NoError, NoneObj, FALSE, <<>>, _base_path)
    /\ UNCHANGED <<class, _base_path, _original_metadata_data_ids, _data, threads>>

Next ==
    \/ \E d \in DefaultBasePaths, env1 \in EnvsFor(metadata) :
          \E env2 \in SecondEnvs(d, env1) : Load(d, env1, env2)
    \/ \E env \in DataEnvs : Data(env)
    \/ \E key \in DataKeys : \E v \in Vals(key), i \in Ids : Replace(key, v, i)
    \/ \E key \in DataKeys : Clear(key)

Spec == Init /\ [][Next]_vars

-----------------------------------------------------------------------------
(* The base path: load with a default base path, replacement of            *)
(* metadata['base'], and the property local_data_path                      *)

\* Default base paths given to load, paths (relative and absolute) and bases
\* the caller stores.
BaseDefaults == {None, PyStr(<<"d">>)}
BasePathVals == {PyStr(<<"p">>), PyStr(<<"/", "q">>)}
NewBaseVals == {PyStr(<<"b">>), PyStr(<<"c">>)}

BaseInit ==
    /\ metadata \in [data : {NoneObj},
                     path : {NoneObj} \cup {Obj(1, v) : v \in BasePathVals},
                     url : {NoneObj} \cup {Obj(1, v) : v \in UrlVals},
                     base : {Absent} \cup {Obj(1, v) : v \in BaseVals}]
    /\ class = "None"
    /\ _base_path = None
    /\ _original_metadata_data_ids = NoIds
    /\ _data = NoneObj
    /\ last = Op("start", FALSE, NoError, NoneObj, FALSE, <<>>, None)
    /\ threads = [t \in Threads |-> Idle]

\* The record of a load, with the default base path it was given.
Called(default_base_path, r) ==
    [op |-> "load", raised |-> r.raised, error |-> r.error, ret |-> NoneObj,
     changed |-> FALSE, runs |-> r.runs, base_path |-> r.self._base_path,
     default |-> default_base_path]

LoadedWith(default_base_path, r) ==
    /\ last' = Called(default_base_path, r)
    /\ Assign(r)

\* resource = Resource.load(metadata, default_base_path)
LoadWithDefault(default_base_path, env1, env2) ==
    /\ class = "None"
    /\ last.op = "start"
    /\ LoadedWith(default_base_path,
                  load("Resource", metadata, default_base_path, env1, env2))
    /\ UNCHANGED <<metadata, threads>>

\* metadata['base'] = a new object of value v (the key is added when absent)
ReplaceBase(v, i) ==
    /\ class # "None"
    /\ i # metadata.base.id
    /\ metadata' = [metadata EXCEPT !.base = Obj(i, v)]
    /\ last' = Op("replace base", FALSE, NoError, NoneObj, FALSE, <<>>, _base_path)
    /\ UNCHANGED <<class, _base_path, _original_metadata_data_ids, _data, threads>>

\* The outside worlds local_data_path can tell apart.
PathEnvs ==
    {env \in Env : /\ env.path = NoEnv.path
                   /\ env.url = NoEnv.url
                   /\ Get(metadata, "path") = NoneObj => env.isfile = NoEnv.isfile}

Found(found) ==
    Return(IF found.val = None THEN NoneObj ELSE Fresh(found.val), found.io)

\* resource.local_data_path
LocalDataPath(env) ==
    /\ class # "None"
    /\ last' = Op("local_data_path", FALSE, NoError,
                  Found(local_data_path(_base_path, metadata, env)).data, FALSE,
                  <<Found(local_data_path(_base_path, metadata, env))>>, _base_path)
    /\ UNCHANGED <<metadata, class, _base_path, _original_metadata_data_ids, _data,
                   threads>>

BaseNext ==
    \/ \E d \in BaseDefaults, env1 \in EnvsFor(metadata) :
          \E env2 \in SecondEnvs(d, env1) : LoadWithDefault(d, env1, env2)
    \/ \E env \in DataEnvs : Data(env)
    \/ \E v \in BasePathVals, i \in Ids : Replace("path", v, i)
    \/ \E v \in NewBaseVals, i \in Ids : ReplaceBase(v, i)
    \/ \E env \in PathEnvs : LocalDataPath(env)

BaseSpec == BaseInit /\ [][BaseNext]_vars

-----------------------------------------------------------------------------
(* Threads: the property data, statement by statement, called by two       *)
(* threads on one resource                                                 *)

\* Values the caller stores under data and path between the accesses.
ThreadVals(key) == IF key = "path" THEN {PyStr(<<"p">>)} ELSE DataVals

ThreadInit ==
    /\ metadata \in [data : {NoneObj},
                     path : {NoneObj} \cup {Obj(1, v) : v \in ThreadVals("path")},
                     url : {NoneObj},
                     base : {Absent}]
    /\ class = "None"
    /\ _base_path = None
    /\ _original_metadata_data_ids = NoIds
    /\ _data = NoneObj
    /\ last = Op("start", FALSE, NoError, NoneObj, FALSE, <<>>, None)
    /\ threads = [t \in Threads |-> Idle]

\* No thread is inside data: the caller stores into metadata only then.
AllIdle == \A t \in Threads : threads[t].pc = "idle"

\* if self._metadata_data_has_changed(self.metadata):
Checked(thread, changed) ==
    [thread EXCEPT !.changed = changed,
                   !.pc = IF changed THEN "key" ELSE "return"]

Check(t) ==
    /\ class # "None"
    /\ threads[t].pc = "idle"
    /\ threads' = [threads EXCEPT ![t] =
                      Checked(@, _metadata_data_has_changed(
                                    metadata, _original_metadata_data_ids))]
    /\ UNCHANGED <<metadata, class, _base_path, _original_metadata_data_ids,
                   _data, last>>

\* self._original_metadata_data_ids = self._metadata_data_ids(metadata),
\* the first statement of _parse_data
SetKey(t) ==
    /\ threads[t].pc = "key"
    /\ _original_metadata_data_ids' = _metadata_data_ids(metadata)
    /\ threads' = [threads EXCEPT ![t].pc = "fetch"]
    /\ UNCHANGED <<metadata, class, _base_path, _data, last>>

\* The rest of _parse_data: the run of _load_data and, in a
\* TabularResource, the parse and the type check; its result is a local of
\* the thread, its exception ends the call.
Fetched(thread, out) ==
    [thread EXCEPT !.pc = IF out.raised THEN "done" ELSE "store",
                   !.fetched = ~out.raised,
                   !.raised = out.raised,
                   !.error = out.error,
                   !.data = out.data]

Fetch(t, env) ==
    /\ threads[t].pc = "fetch"
    /\ threads' = [threads EXCEPT ![t] =
                      Fetched(@, _parse_data(class, _base_path, metadata, env).out)]
    /\ UNCHANGED <<metadata, class, _base_path, _original_metadata_data_ids,
                   _data, last>>

\* self._data = <the value _parse_data returned>
Store(t) ==
    /\ threads[t].pc = "store"
    /\ _data' = threads[t].data
    /\ threads' = [threads EXCEPT ![t].pc = "return"]
    /\ UNCHANGED <<metadata, class, _base_path, _original_metadata_data_ids, last>>

\* return self._data
ReturnData(t) ==
    /\ threads[t].pc = "return"
    /\ threads' = [threads EXCEPT ![t].ret = _data, ![t].pc = "done"]
    /\ UNCHANGED <<metadata, class, _base_path, _original_metadata_data_ids,
                   _data, last>>

ThreadNext ==
    \/ \E d \in DefaultBasePaths, env1 \in EnvsFor(metadata) :
          \E env2 \in SecondEnvs(d, env1) : Load(d, env1, env2)
    \/ \E key \in {"data", "path"} : \E v \in ThreadVals(key), i \in Ids :
          AllIdle /\ Replace(key, v, i)
    \/ \E t \in Threads : Check(t)
    \/ \E t \in Threads : SetKey(t)
    \/ \E t \in Threads : \E env \in EnvsFor(metadata) : Fetch(t, env)
    \/ \E t \in Threads : Store(t)
    \/ \E t \in Threads : ReturnData(t)

ThreadSpec == ThreadInit /\ [][ThreadNext]_vars

-----------------------------------------------------------------------------
(* Properties                                                              *)

\* The identities of data, path and url equal the cache key.
KeyMatches == _metadata_data_ids(metadata) = _original_metadata_data_ids

\* The outside worlds left out of EnvsFor change no run of _load_data.
EnvsForSuffice ==
    \A env \in Env : \E e \in EnvsFor(metadata) :
        _load_data(_base_path, metadata, env) = _load_data(_base_path, metadata, e)

\* The reads and requests of a run (the existence checks left out).
Attempts(run) == SelectSeq(run.io, LAMBDA x : x.op \in {"open", "GET"})

\* C1: a data access that follows, with no change to the descriptor in
\* between, a data access that had to recompute and failed with a
\* ResourceError runs the fetch pipeline again.
C1_RetriedAfterFailure ==
    [][(/\ last.op = "data" /\ last.changed /\ last.raised
        /\ IsInstance(last.error, "ResourceError")
        /\ last'.op = "data")
       => last'.runs # <<>>]_vars

\* What the pipeline produces for the objects now under data, path and url,
\* for the descriptors that have it ask nothing of the outside world.
Produced == _parse_data(class, _base_path, metadata, NoEnv)

\* C2: whenever the identities of data, path and url equal the cache key,
\* _data is the value the pipeline produces for the objects now under these
\* keys.  Stated for the descriptors whose product does not depend on the
\* outside world (inline data, or no source at all), where it can be told
\* from the state.
C2_CacheValid ==
    (class # "None" /\ KeyMatches /\ EnvsFor(metadata) = {NoEnv})
        => (~Produced.out.raised /\ _data.val = Produced.out.data.val)

\* C3: the data access that follows the replacement of data, path or url by
\* a new object runs the fetch pipeline and sets the cache key to the new
\* identities.
C3_ReplacementRefetches ==
    [][(last.op = "replace" /\ last'.op = "data")
       => (/\ last'.runs # <<>>
           /\ _original_metadata_data_ids' = _metadata_data_ids(metadata'))]_vars

\* C4: a data access made while the identities equal the cache key runs no
\* fetch, does not fail, returns _data and leaves it as it was, whatever the
\* outside world holds; and two accesses in a row run at most one fetch.
C4_CacheHit ==
    [][(last'.op = "data")
       => (/\ _metadata_data_ids(metadata) = _original_metadata_data_ids
              => (/\ last'.runs = <<>>
                  /\ ~last'.raised
                  /\ last'.ret = _data
                  /\ _data' = _data)
           /\ last.op = "data" => Len(last.runs) + Len(last'.runs) <= 1)]_vars

\* A cache hit on a resource whose content came from the path or the url.
C4_Witness ==
    /\ last.op = "data" /\ ~last.changed
    /\ IsString(last.ret.val)
    /\ Truthy(Get(metadata, "path").val)

\* The operation just made ran the pipeline on the descriptor as it is now.
Ran == last.op \in {"load", "data"} /\ last.runs # <<>>

\* load made a second construction after the tabular one.
FellBack == last.op = "load" /\ Len(last.runs) = 2

\* C5: when the tabular construction fails because the content could not be
\* fetched, load makes no second construction: the same error leaves load
\* and no resource exists.
C5_FetchFailurePropagates ==
    (last.op = "load" /\ last.runs[1].raised)
       => (/\ last.raised
           /\ last.error = last.runs[1].error
           /\ IsInstance(last.error, "ResourceError")
           /\ Len(last.runs) = 1
           /\ class = "None")

\* load raised the ResourceError of its only run.
C5_Witness ==
    /\ last.op = "load" /\ last.raised
    /\ last.runs[1].raised
    /\ Len(Attempts(last.runs[1])) = 2

\* The content is ultimately an ordered sequence: a list or a tuple, or a
\* text that is a JSON array or, being no JSON, a CSV with at least one row.
UltimatelySequence(x) ==
    IF IsString(x)
    THEN IF JsonLoads(x.v).ok
         THEN JsonLoads(x.v).val.type = "list"
         ELSE CsvDictReader(x.v) # <<>>
    ELSE x.type \in {"list", "tuple"}

\* C6 as stated: whenever the content load fetched is not ultimately a
\* sequence, load returns a plain Resource whose data is that unparsed
\* content.
C6_FallbackReturnsContent ==
    (last.op = "load" /\ ~last.runs[1].raised
        /\ ~UltimatelySequence(last.runs[1].data.val))
       => (/\ ~last.raised
           /\ class = "Resource"
           /\ _data = last.runs[1].data)

\* C6 amended: load never lets the ValueError out; when it falls back it
\* runs the pipeline a second time, and either that run fails and its
\* ResourceError leaves load, or load returns a plain Resource whose data is
\* the unparsed content of that second run.
C6_FallbackRefetches ==
    (last.op = "load")
       => (/\ ~IsInstance(last.error, "ValueError")
           /\ Len(last.runs) \in {1, 2}
           /\ (~last.runs[1].raised /\ ~UltimatelySequence(last.runs[1].data.val))
                 <=> FellBack
           /\ FellBack
                 => IF last.runs[2].raised
                    THEN /\ last.raised
                         /\ last.error = last.runs[2].error
                         /\ class = "None"
                    ELSE /\ ~last.raised
                         /\ class = "Resource"
                         /\ _data = last.runs[2].data)

\* load fell back on a JSON object read from the path and returned a plain
\* Resource holding the raw text.
C6_Witness ==
    /\ FellBack /\ ~last.raised
    /\ class = "Resource"
    /\ _data.val = PyStr(TextObj)
    /\ last.runs[1].data.val = PyStr(TextObj)

\* C7: when a run makes both the path attempt and the url attempt and both
\* fail, the error raised is the one of the path attempt.
C7_FirstErrorWins ==
    Ran => \A k \in 1..Len(last.runs) :
              LET run == last.runs[k]
                  a == Attempts(run)
              IN  (Len(a) = 2 /\ ~a[1].answer.ok /\ ~a[2].answer.ok)
                     => (/\ run.raised
                         /\ run.error.at = a[1].at
                         /\ run.error.cause =
                               (IF a[1].op = "open" THEN "IOError" ELSE "RequestException"))

\* A data access whose path request and url request both failed, at
\* different locations.
C7_Witness ==
    /\ last.op = "data" /\ last.raised
    /\ Len(Attempts(last.runs[1])) = 2
    /\ Attempts(last.runs[1])[1].op = "GET"
    /\ Attempts(last.runs[1])[1].at # Attempts(last.runs[1])[2].at
    /\ last.error.at = Attempts(last.runs[1])[1].at

\* The locations a run may turn to, in order: the resolved path, then the url.
Sources ==
    LET md == metadata
        path == _absolute_path(last.base_path, Get(md, "path").val)
    IN  IF Get(md, "data") # NoneObj
        THEN <<>>
        ELSE (IF Truthy(Get(md, "path").val) THEN <<path.v>> ELSE <<>>)
             \o (IF Truthy(Get(md, "url").val) THEN <<Get(md, "url").val.v>> ELSE <<>>)

\* C8: a run turns to the path (read as a file when it is one, requested
\* as a URL when not) and then to the url, in that order, goes on only
\* after a failed attempt and stops at the first attempt that yields
\* content, which it returns; it raises only when every attempt it made
\* failed, and it made one.
C8_FirstSuccessWins ==
    Ran => \A k \in 1..Len(last.runs) :
              LET run == last.runs[k]
                  a == Attempts(run)
                  n == Len(a)
              IN  /\ n <= Len(Sources)
                  /\ \A j \in 1..n : a[j].at = Sources[j]
                  /\ \A j \in 1..n :
                        a[j].op = (IF j = 1 /\ Truthy(Get(metadata, "path").val)
                                      /\ run.io[1].op = "isfile" /\ run.io[1].answer.ok
                                   THEN "open" ELSE "GET")
                  /\ \A j \in 1..(n - 1) : ~a[j].answer.ok
                  /\ n < Len(Sources) => a[n].answer.ok
                  /\ (n > 0 /\ a[n].answer.ok)
                        => (~run.raised /\ run.data = Fresh(PyStr(a[n].answer.text)))
                  /\ run.raised <=> (n > 0 /\ \A j \in 1..n : ~a[j].answer.ok)
                  /\ run.raised => IsInstance(run.error, "ResourceError")

\* A run whose path attempt failed and whose url attempt gave the content.
C8_Witness ==
    /\ Ran
    /\ LET a == Attempts(last.runs[1])
       IN  /\ Len(a) = 2
           /\ ~a[1].answer.ok /\ a[2].answer.ok
           /\ ~last.runs[1].raised
           /\ last.runs[1].data.val = PyStr(a[2].answer.text)

\* C9: a run on a descriptor whose data is present returns that very object
\* and performs no input or output, whatever path and url hold; and load on
\* a descriptor whose data is a value other than a text returns a resource
\* whose data is that object.
C9_InlineDataWins ==
    (Ran /\ Get(metadata, "data") # NoneObj)
       => (/\ \A k \in 1..Len(last.runs) :
                 /\ ~last.runs[k].raised
                 /\ last.runs[k].data = Get(metadata, "data")
                 /\ last.runs[k].io = <<>>
           /\ (last.op = "load" /\ ~IsString(Get(metadata, "data").val))
                 => (/\ ~last.raised
                     /\ class # "None"
                     /\ _data = Get(metadata, "data")
                     /\ KeyMatches))

\* load on a descriptor that holds a mapping as data besides a path and a url.
C9_Witness ==
    /\ last.op = "load"
    /\ Get(metadata, "data").val = PyDict(<<>>)
    /\ Truthy(Get(metadata, "path").val)
    /\ Truthy(Get(metadata, "url").val)
    /\ _data = Get(metadata, "data")

\* C10: the _data of a TabularResource is a list or a tuple in every state,
\* and so is every value its data access returns.
C10_TabularDataIsSequence ==
    class = "TabularResource"
       => (/\ _data.val.type \in {"list", "tuple"}
           /\ (last.op = "data" /\ ~last.raised) => last.ret.val.type \in {"list", "tuple"})

\* A TabularResource whose data access just raised the type error.
C10_Witness ==
    /\ class = "TabularResource"
    /\ last.op = "data" /\ last.raised
    /\ IsInstance(last.error, "ValueError")

\* A text that is no JSON and, read as CSV, has a header and no rows.
EmptyCsv(x) == IsString(x) /\ ~JsonLoads(x.v).ok /\ CsvDictReader(x.v) = <<>>

\* C11 as stated: when the content fetched is an empty CSV body, the data
\* of the resulting resource is None.
C11_EmptyCsvGivesNone ==
    (Ran /\ ~last.runs[1].raised /\ EmptyCsv(last.runs[1].data.val))
       => (~last.raised /\ class # "None" /\ _data = NoneObj)

\* C11 amended: the tabular parse turns an empty CSV body into None, never
\* into an empty sequence, and None is not tabular: load falls back to a
\* second construction, whose failure leaves load and which else gives a
\* plain Resource holding the raw text it fetched; the data access of a
\* TabularResource raises the type error naming NoneType and that of a
\* plain Resource returns the raw text.
C11_EmptyCsvIsNotTabular ==
    (Ran /\ ~last.runs[1].raised /\ EmptyCsv(last.runs[1].data.val))
       => (/\ last.op = "load"
              => (/\ FellBack
                  /\ IF last.runs[2].raised
                     THEN last.raised /\ last.error = last.runs[2].error
                     ELSE /\ ~last.raised
                          /\ class = "Resource"
                          /\ _data = last.runs[2].data
                          /\ IsString(_data.val))
           /\ (last.op = "data" /\ class = "TabularResource")
              => (last.raised /\ last.error = ValueError("NoneType"))
           /\ (last.op = "data" /\ class = "Resource")
              => (~last.raised /\ last.ret = last.runs[1].data /\ _data = last.ret))

\* load read a header-only CSV twice and returned a plain Resource holding
\* its text.
C11_Witness ==
    /\ FellBack /\ ~last.raised
    /\ last.runs[1].data.val = PyStr(TextHdr)
    /\ class = "Resource"
    /\ _data.val = PyStr(TextHdr)

\* C12: on a text, the tabular parse takes the JSON value whenever the text
\* is valid JSON and reads the text as CSV only when it is not; a JSON array
\* is the data as parsed, a JSON value that is no array fails the type check
\* under its own type and is not read as CSV, and the only ValueError that
\* leaves is that of the type check.
C12_JsonBeforeCsv ==
    (Ran /\ ~last.runs[1].raised /\ IsString(last.runs[1].data.val))
       => LET text == last.runs[1].data.val.v
              tabular == last.op = "load" \/ class = "TabularResource"
          IN  /\ (JsonLoads(text).ok /\ JsonLoads(text).val.type = "list" /\ tabular)
                    => (/\ ~last.raised
                        /\ class = "TabularResource"
                        /\ _data.val = JsonLoads(text).val)
              /\ (JsonLoads(text).ok /\ JsonLoads(text).val.type # "list")
                    => (/\ last.op = "load" => FellBack
                        /\ (last.op = "data" /\ tabular)
                              => (/\ last.raised
                                  /\ last.error = ValueError(JsonLoads(text).val.type)))
              /\ (~JsonLoads(text).ok /\ CsvDictReader(text) # <<>> /\ tabular)
                    => (/\ ~last.raised
                        /\ class = "TabularResource"
                        /\ _data.val = PyList(CsvDictReader(text)))
              /\ (last.raised /\ IsInstance(last.error, "ValueError"))
                    => last.error.cause \in {"dict", "int", "str", "NoneType"}

\* The data access of a TabularResource fetched the text of a JSON array
\* and returned the array.
C12_Witness ==
    /\ class = "TabularResource"
    /\ last.op = "data" /\ last.changed /\ ~last.raised
    /\ last.runs[1].data.val = PyStr(TextArr)
    /\ last.ret.val = PyList(<<PyInt(1), PyInt(2)>>)

\* The HTTP requests of a run.
Requests(run) == SelectSeq(run.io, LAMBDA x : x.op = "GET")

\* C13 as stated: a run of the pipeline makes at most one HTTP request.
C13_SingleRequest ==
    Ran => \A k \in 1..Len(last.runs) : Len(Requests(last.runs[k])) <= 1

\* C13 amended: a run makes at most one attempt for the path and at most
\* one for the url, none of them twice: at most two HTTP requests, and two
\* only when the path is no local file and its request failed.
C13_OneRequestPerSource ==
    Ran => \A k \in 1..Len(last.runs) :
              /\ Len(Attempts(last.runs[k])) <= Len(Sources)
              /\ Len(Requests(last.runs[k])) <= 2
              /\ Len(Requests(last.runs[k])) = 2
                    => (/\ Len(Sources) = 2
                        /\ Requests(last.runs[k])[1].at = Sources[1]
                        /\ ~Requests(last.runs[k])[1].answer.ok
                        /\ Requests(last.runs[k])[2].at = Sources[2]
                        /\ \A i \in 1..Len(last.runs[k].io) :
                              last.runs[k].io[i].op = "isfile"
                                 => ~last.runs[k].io[i].answer.ok)

\* load requested the path, which is no local file, and then the url, and
\* both requests failed.
C13_Witness ==
    /\ last.op = "load" /\ last.raised
    /\ Len(Requests(last.runs[1])) = 2
    /\ ~Requests(last.runs[1])[2].answer.ok

\* C14: on a descriptor that names no source (data is None and path and url
\* are None or empty), a run of the pipeline performs no input or output
\* and returns None without raising; load on it returns a plain Resource
\* whose data is None.
C14_NoSourceIsNoError ==
    (Ran /\ Get(metadata, "data") = NoneObj /\ Sources = <<>>)
       => (/\ \A k \in 1..Len(last.runs) :
                 /\ ~last.runs[k].raised
                 /\ last.runs[k].data = NoneObj
                 /\ last.runs[k].io = <<>>
           /\ last.op = "load"
                 => (/\ ~last.raised
                     /\ class = "Resource"
                     /\ _data = NoneObj))

\* load on the descriptor that holds none of data, path and url.
C14_Witness ==
    /\ last.op = "load" /\ ~last.raised
    /\ \A key \in DataKeys : Get(metadata, key) = NoneObj
    /\ class = "Resource"
    /\ _data = NoneObj

\* C15: no operation on a resource obtained from load, and load itself,
\* lets the ValueError of the tabular type check reach the caller.
C15_TypeErrorNeverSurfaces ==
    last.op \in {"load", "data"}
       => ~(last.raised /\ IsInstance(last.error, "ValueError"))

\* The identities of data, path and url are those the cache key holds
\* (whatever else the key may hold).
DataKeyMatches ==
    /\ Get(metadata, "data").id = _original_metadata_data_ids.data_id
    /\ Get(metadata, "path").id = _original_metadata_data_ids.data_path_id
    /\ Get(metadata, "url").id = _original_metadata_data_ids.data_url_id

\* The base path the step just made must have resolved the path against:
\* for load the base of the descriptor, else the default it was given; for
\* any later operation the base path the resource already had.
FixedBase ==
    IF last'.op = "load"
    THEN GetDefault(metadata, "base", last'.default)
    ELSE _base_path

BasePathStep ==
    /\ (last'.op = "load" /\ ~last'.raised) => _base_path' = FixedBase
    /\ last'.op # "load" => _base_path' = _base_path
    /\ \A k \in 1..Len(last'.runs) : \A j \in 1..Len(last'.runs[k].io) :
          /\ last'.runs[k].io[j].op \in {"isfile", "open"}
                => last'.runs[k].io[j].at =
                      _absolute_path(FixedBase, Get(metadata, "path").val).v
          /\ last'.runs[k].io[j].op = "GET"
                => last'.runs[k].io[j].at \in
                      {_absolute_path(FixedBase, Get(metadata, "path").val).v,
                       Get(metadata, "url").val.v}
    /\ last'.op = "replace base"
          => (/\ DataKeyMatches' <=> DataKeyMatches
              /\ _data' = _data)
    /\ (last'.op = "data" /\ DataKeyMatches)
          => (last'.runs = <<>> /\ ~last'.raised /\ last'.ret = _data)

\* C16: _base_path is the base of the descriptor if it holds one when load
\* is called, else the default given to load, and no later operation
\* changes it; every fetch and every local_data_path resolves the path
\* against it whatever base the descriptor holds by then, and storing a new
\* base does not make the next data access fetch.
C16_BasePathFixed == [][BasePathStep]_vars

\* A data access fetched the relative path, resolved against the default
\* base path given to load, after the caller had stored a base in the
\* descriptor.
C16_Witness ==
    /\ last.op = "data" /\ last.changed
    /\ _base_path = PyStr(<<"d">>)
    /\ metadata.base # Absent
    /\ Get(metadata, "path").val = PyStr(<<"p">>)
    /\ last.runs[1].io[1].at = <<"d", "/", "p">>

\* C17: when a thread found the cache key changed, every access that has
\* returned returned content fetched, by itself or by the other thread,
\* for the objects now in the descriptor.
C17_NoStaleReturn ==
    (\E u \in Threads : threads[u].changed)
       => \A t \in Threads :
             (threads[t].pc = "done" /\ ~threads[t].raised)
                => \E u \in Threads :
                      threads[u].fetched /\ threads[t].ret = threads[u].data

\* C18: load runs the pipeline once when the run fails or its content is
\* tabular, and twice when the content is not tabular; the plain Resource
\* of the fallback holds what the second run returned, and the
\* ResourceError of a failed second run leaves load.
C18_LoadRunsOnceOrTwice ==
    last.op = "load"
       => (/\ Len(last.runs) =
                 (IF last.runs[1].raised \/ UltimatelySequence(last.runs[1].data.val)
                  THEN 1 ELSE 2)
           /\ (Len(last.runs) = 1 /\ ~last.runs[1].raised)
                 => (~last.raised /\ class = "TabularResource")
           /\ (Len(last.runs) = 1 /\ last.runs[1].raised)
                 => (last.raised /\ class = "None")
           /\ (Len(last.runs) = 2 /\ ~last.runs[2].raised)
                 => (/\ ~last.raised
                     /\ class = "Resource"
                     /\ _data = last.runs[2].data
                     /\ _data.val = Get(metadata, "data").val
                           \/ \E j \in 1..Len(last.runs[2].io) :
                                 /\ last.runs[2].io[j].answer.ok
                                 /\ _data.val = PyStr(last.runs[2].io[j].answer.text))
           /\ (Len(last.runs) = 2 /\ last.runs[2].raised)
                 => (/\ last.raised
                     /\ IsInstance(last.error, "ResourceError")
                     /\ last.error = last.runs[2].error
                     /\ class = "None"))

\* The tabular construction fetched a JSON object, the second construction
\* could fetch nothing and its ResourceError left load.
C18_Witness ==
    /\ FellBack /\ last.raised
    /\ last.runs[1].data.val = PyStr(TextObj)
    /\ last.runs[2].raised
    /\ last.error = last.runs[2].error

====
